---- MODULE Spec2Model ----
(***************************************************************************)
(* State-machine model of the financial-mgr core:                          *)
(*   CurrencyEngine  (modules/assets.ts, second class of the file)         *)
(*   AssetEngine     (modules/assets.ts)                                   *)
(*   RiskEngine      (risk.ts)                                             *)
(*   StatsEngine and CreditEngine: their threshold tables                  *)
(*                                                                         *)
(* Numbers.  Money amounts are integers counting units of 10^-(6+Extra-    *)
(* Digits): toFixed(6) keeps six decimals, the model carries ExtraDigits   *)
(* more below them, which is exactly what liquidation needs (a 6-decimal   *)
(* value times a penalty in hundredths has 8 decimals).  Exchange rates    *)
(* are exact rationals [n, d].  Binary floating-point representation       *)
(* error is not modelled: x.toFixed(6) is rounding of the decimal value    *)
(* to the nearest 10^-6, ties away from zero.                              *)
(***************************************************************************)
EXTENDS Integers, Sequences, FiniteSets, TLC

VARIABLES
  exchangeRates,   \* CurrencyEngine.exchangeRates: stored pair -> rate
  lastCall,        \* the latest resolver call with its outcome
  snapshot,        \* the table a caller got from getRatesSnapshot
  objs,            \* heap of Asset objects, an address is an index
  arrs,            \* heap of arrays, each a sequence of object addresses
  callerAssets,    \* address of the array the caller passes in
  atCall,          \* the caller's list as it was built (value, not address)
  today,           \* the current date
  liq,             \* the liquidateForDeficit call: arguments and outcome
  gen,             \* the generator closure built by the latest revaluation
  prevReval,       \* the revalueAssets call before the latest one
  lastReval,       \* the latest revalueAssets call: arguments and result
  trajectories,    \* the ensemble handed to the RiskEngine
  risk,            \* the outcome of calculateCollapseProbability
  riskCall,        \* the latest call of another RiskEngine method
  wallet,          \* the WalletState handed to getLiquidityRatio
  liquidity,       \* the getLiquidityRatio call and its outcome
  tiers            \* a probability or score and the levels and tiers given it

vars ==
  <<exchangeRates, lastCall, snapshot, objs, arrs, callerAssets, atCall, today, liq,
    gen, prevReval, lastReval, trajectories, risk, riskCall,
    wallet, liquidity, tiers>>

ratioVars == <<wallet, liquidity>>

riskVars == <<trajectories, risk, riskCall>>

curVars == <<exchangeRates, lastCall, snapshot>>

revalVars == <<gen, prevReval, lastReval>>

liqVars == <<objs, arrs, callerAssets, atCall, today, liq>>

-----------------------------------------------------------------------------
(* Numbers                                                                 *)

\* decimal digits the model carries below the sixth
ExtraDigits == 2

RECURSIVE Pow10(_)
Pow10(k) == IF k = 0 THEN 1 ELSE 10 * Pow10(k - 1)

\* one 10^-6 step, counted in model units
Step == Pow10(ExtraDigits)

Abs(x) == IF x < 0 THEN -x ELSE x

Sgn(x) == IF x < 0 THEN -1 ELSE 1

Min(a, b) == IF a < b THEN a ELSE b

Max(a, b) == IF a > b THEN a ELSE b

\* Number((num/den).toFixed(6)) for den > 0, in model units:
\* the nearest multiple of Step, a tie going away from zero
ToFixed6(num, den) ==
  Sgn(num) * Step * ((2 * Abs(num) + den * Step) \div (2 * den * Step))

\* digits beyond the sixth dropped
Truncate6(x) == Sgn(x) * Step * (Abs(x) \div Step)

-----------------------------------------------------------------------------
(* CurrencyEngine                                                          *)

Currencies == {"USD", "EUR", "GBP", "PKR"}

\* the key `${from}/${to}`
PairKey(from, to) == <<from, to>>

Rate(n, d) == [n |-> n, d |-> d]

Recip(r) == [n |-> r.d, d |-> r.n]

RateMul(r, s) == [n |-> r.n * s.n, d |-> r.d * s.d]

NoRate == [found |-> FALSE, rate |-> Rate(0, 1)]

Found(r) == [found |-> TRUE, rate |-> r]

\* the table the constructor builds
DefaultRates ==
  (PairKey("USD", "EUR") :> Rate(92, 100)) @@
  (PairKey("USD", "GBP") :> Rate(79, 100)) @@
  (PairKey("USD", "PKR") :> Rate(2785, 10)) @@
  (PairKey("EUR", "GBP") :> Rate(86, 100)) @@
  (PairKey("EUR", "PKR") :> Rate(3027, 10)) @@
  (PairKey("GBP", "PKR") :> Rate(3512, 10))

\* `pair in this.exchangeRates && pair !== "timestamp"`
HasPair(rates, from, to) == PairKey(from, to) \in DOMAIN rates

intermediaries_swapped == <<"EUR", "USD">>

intermediaries == <<"USD", "EUR">>

RECURSIVE IndirectFrom(_, _, _, _)
IndirectFrom(rates, from, to, i) ==
  IF i > Len(intermediaries) THEN NoRate
  ELSE LET inter == intermediaries[i] IN
    IF inter = from \/ inter = to
      THEN IndirectFrom(rates, from, to, i + 1)
    ELSE IF HasPair(rates, from, inter) /\ HasPair(rates, inter, to)
      THEN Found(RateMul(rates[PairKey(from, inter)], rates[PairKey(inter, to)]))
    ELSE IndirectFrom(rates, from, to, i + 1)

getIndirectRate(rates, from, to) == IndirectFrom(rates, from, to, 1)

\* value.toFixed(this.precision) of amount * rate
truncateToPrecision(num, den) == ToFixed6(num, den)

Returned(v) == [threw |-> FALSE, value |-> v, rate |-> Rate(0, 1), msg |-> "", pair |-> <<>>]

ReturnedRate(r) == [threw |-> FALSE, value |-> 0, rate |-> r, msg |-> "", pair |-> <<>>]

Thrown(m, from, to) ==
  [threw |-> TRUE, value |-> 0, rate |-> Rate(0, 1), msg |-> m, pair |-> PairKey(from, to)]

\* the rate convert settles on, or NoRate when it throws
ResolveRate(rates, from, to) ==
  IF HasPair(rates, from, to) THEN Found(rates[PairKey(from, to)])
  ELSE IF HasPair(rates, to, from) THEN Found(Recip(rates[PairKey(to, from)]))
  ELSE LET indirectRate == getIndirectRate(rates, from, to) IN
    IF (~indirectRate.found) \/ indirectRate.rate.n = 0 THEN NoRate
    ELSE indirectRate

convert(rates, amount, from, to) ==
  IF from = to THEN Returned(truncateToPrecision(amount, 1))
  ELSE LET r == ResolveRate(rates, from, to) IN
    IF ~r.found THEN Thrown("No exchange rate found for", from, to)
    ELSE Returned(truncateToPrecision(amount * r.rate.n, r.rate.d))

getRate(rates, from, to) ==
  IF HasPair(rates, from, to) THEN ReturnedRate(rates[PairKey(from, to)])
  ELSE IF HasPair(rates, to, from) THEN ReturnedRate(Recip(rates[PairKey(to, from)]))
  ELSE Thrown("Rate not found for", from, to)

RECURSIVE Gcd(_, _)
Gcd(a, b) == IF b = 0 THEN a ELSE Gcd(b, a % b)

\* the same number in lowest terms
Lowest(r) == LET g == Gcd(r.n, r.d) IN Rate(r.n \div g, r.d \div g)

\* the first k decimals of rem / den (rem < den) as an integer, with what
\* is left over
RECURSIVE Decimals(_, _, _, _)
Decimals(acc, rem, den, k) ==
  IF k = 0 THEN [digits |-> acc, rem |-> rem]
  ELSE Decimals(10 * acc + ((10 * rem) \div den), (10 * rem) % den, den, k - 1)

\* Number(x.toFixed(this.precision)) of the positive number num / den
ToFixedRate(num, den) ==
  LET r == Lowest(Rate(num, den))
      f == Decimals(0, r.n % r.d, r.d, 6)
      up == IF 2 * f.rem >= r.d THEN 1 ELSE 0
  IN Lowest(Rate((r.n \div r.d) * Pow10(6) + f.digits + up, Pow10(6)))

\* currentRate * (1 + shock) at 6 decimals, the shock in hundredths
ShockedRate(currentRate, shock) ==
  ToFixedRate(currentRate.n * (100 + shock), currentRate.d * 100)

\* updateRates: every stored pair gets a shock of its own, shocks[pair]
\* being its (Math.random() - 0.5) * volatility
\* (the timestamp entry, which convert and getRate skip, is left out)
updateRates(rates, shocks) ==
  [pair \in DOMAIN rates |-> ShockedRate(rates[pair], shocks[pair])]

getRatesSnapshot_alias(rates) == [rates |-> rates, shared |-> TRUE]

\* getRatesSnapshot: `{ ...this.exchangeRates }` is a new object holding
\* the same entries; shared tells whether the caller's object is the
\* engine's own
getRatesSnapshot(rates) == [rates |-> rates, shared |-> FALSE]

\* setRates: `this.exchangeRates = { ...rates }`, a new object again
setRates(rates) == [rates |-> rates, shared |-> FALSE]

-----------------------------------------------------------------------------
(* AssetEngine.liquidateForDeficit                                         *)

NoDate == [type |-> "undefined", day |-> 0]

DateOf(d) == [type |-> "Date", day |-> d]

\* an Asset; id, name and baseValue are carried along untouched and left out
AssetOf(amount, currency, volatility, liquidityClass, lockedUntil) ==
  [amount |-> amount, currency |-> currency, volatility |-> volatility,
   liquidityClass |-> liquidityClass, lockedUntil |-> lockedUntil]

\* JSON.stringify then JSON.parse of one value: a Date comes back as its
\* ISO string, an undefined property stays absent, a finite number is kept
JsonValue(v) == IF v.type = "Date" THEN [v EXCEPT !.type = "string"] ELSE v

JsonAsset(a) == [a EXCEPT !.lockedUntil = JsonValue(@)]

\* a copy gives the heaps after it and the address of the new array;
\* [...assets] would be a new array of the same objects
ShallowCopy(os, as, ref) ==
  [objs |-> os, arrs |-> Append(as, as[ref]), ref |-> Len(as) + 1]

\* JSON.parse(JSON.stringify(assets)): a new array of new objects
DeepCopy(os, as, ref) ==
  LET old == as[ref]
      n == Len(old)
  IN [objs |-> os \o [i \in 1..n |-> JsonAsset(os[old[i]])],
      arrs |-> Append(as, [i \in 1..n |-> Len(os) + i]),
      ref |-> Len(as) + 1]

liquidityOrder_swapped == <<"liquid", "volatile", "yield", "illiquid">>

liquidityOrder == <<"liquid", "yield", "volatile", "illiquid">>

\* AssetEngine.liquidationPenalty, in hundredths
liquidationPenalty ==
  [liquid |-> 0, yield |-> 2, volatile |-> 5, illiquid |-> 10]

sellAmount_all(asset, remainingDeficit) == remainingDeficit

\* Math.min(asset.amount, remainingDeficit)
sellAmount(asset, remainingDeficit) == Min(asset.amount, remainingDeficit)

\* isAssetLocked(asset, currentDate); a Date against a string compares
\* a number with NaN, which is false
isAssetLocked(asset, currentDate) ==
  IF asset.lockedUntil.type = "undefined" THEN FALSE
  ELSE IF asset.lockedUntil.type = "Date" THEN currentDate < asset.lockedUntil.day
  ELSE FALSE

\* `if (remainingDeficit <= 0) break` of the inner loop
InnerBreak(remainingDeficit) == remainingDeficit <= 0

\* the inner loop from position j of classAssets; st is the running state:
\* the object heap, remainingDeficit, whether convert threw, and the trace
\* of the objects processed with the deficit each one met
RECURSIVE SellClass(_, _, _, _, _)
SellClass(rates, st, classAssets, j, liquidityClass) ==
  IF j > Len(classAssets) \/ st.threw THEN st
  ELSE IF InnerBreak(st.remainingDeficit) THEN st
  ELSE
    LET a == classAssets[j]
        asset == st.objs[a]
        sell == sellAmount(asset, st.remainingDeficit)
        penalty == liquidationPenalty[liquidityClass]
        proceedsBeforePenalty == convert(rates, sell, asset.currency, "USD")
    IN IF proceedsBeforePenalty.threw THEN [st EXCEPT !.threw = TRUE]
       ELSE
         LET proceeds == (proceedsBeforePenalty.value * (100 - penalty)) \div 100
         IN SellClass(rates,
                      [st EXCEPT !.objs[a].amount = @ - sell,
                                 !.remainingDeficit = @ - proceeds,
                                 !.trace = Append(@, [obj |-> a, met |-> st.remainingDeficit])],
                      classAssets, j + 1, liquidityClass)

\* the outer loop from position k of liquidityOrder
RECURSIVE SellFrom(_, _, _, _)
SellFrom(rates, st, updatedAssets, k) ==
  IF k > Len(liquidityOrder) \/ st.threw THEN st
  ELSE IF st.remainingDeficit <= 0 THEN st
  ELSE
    LET liquidityClass == liquidityOrder[k]
        classAssets ==
          SelectSeq(updatedAssets, LAMBDA a : st.objs[a].liquidityClass = liquidityClass)
    IN SellFrom(rates, SellClass(rates, st, classAssets, 1, liquidityClass),
                updatedAssets, k + 1)

\* liquidateForDeficit(assets, deficitAmount) on the heaps os, as
liquidateForDeficit(rates, os, as, assets, deficitAmount) ==
  LET copy == DeepCopy(os, as, assets)
      end == SellFrom(rates,
                      [objs |-> copy.objs, remainingDeficit |-> deficitAmount,
                       threw |-> FALSE, trace |-> <<>>],
                      copy.arrs[copy.ref], 1)
  IN [objs |-> end.objs, arrs |-> copy.arrs, threw |-> end.threw,
      remainingDeficit |-> Max(0, end.remainingDeficit),
      liquidatedAssets |-> copy.ref,
      trace |-> end.trace, rawRemaining |-> end.remainingDeficit]

-----------------------------------------------------------------------------
(* AssetEngine.revalueAssets and its generator                             *)

\* the generator's numbers: start of m_z, the two multipliers, and 2^16
\* (`& 65535` keeps the low half of a 32-bit word, `>> 16` the high half)
InitialMz == 987654321

MultZ == 36969

MultW == 18000

Half == 65536

\* a generator: m_w as a number (it stays below 2^31 for a seed in
\* 0 .. 2^31 - 1), m_z as the two halves of its 32-bit word, and the count
\* of draws made from it
FreshGen(seed) ==
  [m_w |-> seed, zh |-> InitialMz \div Half, zl |-> InitialMz % Half, count |-> 0]

\* a generator that goes on from where the latest one stopped
seededRNG_kept(seed) == IF gen.count > 0 THEN gen ELSE FreshGen(seed)

\* seededRNG(seed): a new closure over its own m_w and m_z
seededRNG(seed) == FreshGen(seed)

\* one call of the closure: the generator after it and the 32-bit draw,
\* as halves.  36969 * zl can pass 2^31, so the product is taken on the two
\* bytes of zl; `& mask` wraps the sum to 32 bits and m_z >> 16 is the high
\* half read as a signed number.
Draw(g) ==
  LET pa == MultZ * (g.zl \div 256)
      pb == MultZ * (g.zl % 256)
      low == (pa % 256) * 256 + pb
      high == pa \div 256
      shifted == IF g.zh >= Half \div 2 THEN g.zh - Half ELSE g.zh
      zl2 == (low + shifted) % Half
      zh2 == (high + ((low + shifted) \div Half)) % Half
      mw2 == MultW * (g.m_w % Half) + (g.m_w \div Half)
  IN [gen |-> [m_w |-> mw2, zh |-> zh2, zl |-> zl2, count |-> g.count + 1],
      hi |-> zl2, lo |-> mw2 % Half]

\* parseFloat(Math.max(0, amount * (1 + shock)).toFixed(6)) with
\* shock = draw / 2^32 * volatility * 2 - volatility, volatility in
\* hundredths, amount * volatility below 2^15
Revalued(amount, volatility, hi, lo) ==
  LET twiceY == (amount * volatility * hi + ((amount * volatility * lo) \div Half))
                  \div (Half \div 4)
      twiceNew == 2 * amount * (100 - volatility) + twiceY
  IN ToFixed6(Max(0, twiceNew), 2 * 100)

\* assets.map from position i on, the closure called once per asset
RECURSIVE RevalueFrom(_, _, _)
RevalueFrom(g, assets, i) ==
  IF i > Len(assets) THEN [gen |-> g, out |-> <<>>]
  ELSE
    LET d == Draw(g)
        rest == RevalueFrom(d.gen, assets, i + 1)
    IN [gen |-> rest.gen,
        out |-> << [assets[i] EXCEPT
                      !.amount = Revalued(@, assets[i].volatility, d.hi, d.lo)] >>
                \o rest.out]

revalueAssets(assets, seed) == RevalueFrom(seededRNG(seed), assets, 1)

-----------------------------------------------------------------------------
(* RiskEngine                                                              *)

\* a number result that may be NaN; fractions are kept as the integer of
\* their last kept decimal (toFixed(4): ten-thousandths)
Num(v) == [nan |-> FALSE, v |-> v]

NaN == [nan |-> TRUE, v |-> 0]

\* parseFloat((num / den).toFixed(digits)) for num >= 0, counted in
\* 10^-digits; 0 / 0 is NaN
Ratio(num, den, digits) ==
  IF den = 0 THEN NaN
  ELSE Num((2 * num * Pow10(digits) + den) \div (2 * den))

\* a day of a trajectory: the WalletState fields the RiskEngine reads
DayOf(balance) == [balance |-> balance]

CollapseGuard_none(hasCollapsed) == TRUE

\* the `!hasCollapsed` of the collapse test
CollapseGuard(hasCollapsed) == ~hasCollapsed

RecoveryGuard_any(hasCollapsed, collapsedDay) == TRUE

\* the `hasCollapsed && collapsedDay > -1` of the recovery test
RecoveryGuard(hasCollapsed, collapsedDay) == hasCollapsed /\ collapsedDay > -1

\* the inner forEach from day dayIndex (0-based) on; st carries hasCollapsed,
\* collapsedDay, recoveredAfter and the shared collapseTimings
RECURSIVE ScanDays(_, _, _)
ScanDays(st, trajectory, dayIndex) ==
  IF dayIndex >= Len(trajectory) THEN st
  ELSE
    LET state == trajectory[dayIndex + 1]
        hit == state.balance < 0 /\ CollapseGuard(st.hasCollapsed)
        s1 == IF hit
              THEN [st EXCEPT !.hasCollapsed = TRUE, !.collapsedDay = dayIndex,
                              !.collapseTimings = Append(@, dayIndex)]
              ELSE st
        s2 == IF RecoveryGuard(s1.hasCollapsed, s1.collapsedDay) /\ state.balance > 0
              THEN [s1 EXCEPT !.recoveredAfter = TRUE]
              ELSE s1
    IN ScanDays(s2, trajectory, dayIndex + 1)

\* the outer forEach from trajectory t on; acc carries collapseTimings and
\* recoveredCount
RECURSIVE ScanTrajectories(_, _, _)
ScanTrajectories(acc, trajs, t) ==
  IF t > Len(trajs) THEN acc
  ELSE
    LET end == ScanDays([hasCollapsed |-> FALSE, collapsedDay |-> -1,
                         recoveredAfter |-> FALSE,
                         collapseTimings |-> acc.collapseTimings],
                        trajs[t], 0)
    IN ScanTrajectories(
         [collapseTimings |-> end.collapseTimings,
          recoveredCount |-> acc.recoveredCount + (IF end.recoveredAfter THEN 1 ELSE 0)],
         trajs, t + 1)

RECURSIVE SumSeq(_)
SumSeq(q) == IF q = <<>> THEN 0 ELSE Head(q) + SumSeq(Tail(q))

\* the running peak, trough and worst drawdown over one trajectory from day
\* d on; the worst drawdown is the fraction n / d
RECURSIVE DrawdownDays(_, _, _)
DrawdownDays(st, trajectory, d) ==
  IF d > Len(trajectory) THEN st
  ELSE
    LET b == trajectory[d].balance
        peak == IF b > st.peak THEN b ELSE st.peak
        trough == IF b < st.trough THEN b ELSE st.trough
        drawdown == IF peak > 0 THEN [n |-> peak - trough, d |-> peak]
                    ELSE [n |-> 0, d |-> 1]
        worse == drawdown.n * st.worst.d > st.worst.n * drawdown.d
    IN DrawdownDays([peak |-> peak, trough |-> trough,
                     worst |-> IF worse THEN drawdown ELSE st.worst],
                    trajectory, d + 1)

\* calculateMaxDrawdown from trajectory t on: reading trajectory[0].balance
\* of a trajectory without days throws a TypeError
RECURSIVE DrawdownFrom(_, _, _)
DrawdownFrom(worst, trajs, t) ==
  IF t > Len(trajs) THEN [threw |-> FALSE, worst |-> worst]
  ELSE IF Len(trajs[t]) = 0 THEN [threw |-> TRUE, worst |-> worst]
  ELSE
    LET first == trajs[t][1].balance
        end == DrawdownDays([peak |-> first, trough |-> first, worst |-> worst],
                            trajs[t], 1)
    IN DrawdownFrom(end.worst, trajs, t + 1)

\* calculateMaxDrawdown: the worst drawdown in hundredths of a percent
calculateMaxDrawdown(trajs) ==
  LET r == DrawdownFrom([n |-> 0, d |-> 1], trajs, 1)
  IN [threw |-> r.threw,
      value |-> IF r.threw THEN 0 ELSE Ratio(r.worst.n * 100, r.worst.d, 2).v]

NoRisk ==
  [state |-> "idle", collapseProbability |-> Num(0), collapseTimings |-> <<>>,
   averageCollapsDay |-> 0, recoveryRate |-> Num(0), maxDrawdown |-> 0,
   error |-> ""]

calculateCollapseProbability(trajs) ==
  LET acc == ScanTrajectories([collapseTimings |-> <<>>, recoveredCount |-> 0],
                              trajs, 1)
      collapsed == Len(acc.collapseTimings)
      \* twice the mean collapse day, -1 for none
      averageTwice == IF collapsed > 0 THEN SumSeq(acc.collapseTimings) * 2 ELSE -2
      drawdown == calculateMaxDrawdown(trajs)
  IN IF drawdown.threw
     THEN [NoRisk EXCEPT !.state = "threw", !.error = "TypeError"]
     ELSE
       [state |-> "returned",
        collapseProbability |-> Ratio(collapsed, Len(trajs), 4),
        collapseTimings |-> acc.collapseTimings,
        averageCollapsDay |->
          IF collapsed > 0 /\ averageTwice > 0
          THEN (averageTwice + collapsed) \div (2 * collapsed)
          ELSE 0,
        recoveryRate |->
          IF collapsed > 0 THEN Ratio(acc.recoveredCount, collapsed, 4)
          ELSE Num(Pow10(4)),
        maxDrawdown |-> drawdown.value,
        error |-> ""]

\* what a method returning a number hands back: the number n / d, NaN,
\* undefined, or a thrown error
Number(n, d) == [kind |-> "number", n |-> n, d |-> d, error |-> ""]

NotANumber == [kind |-> "NaN", n |-> 0, d |-> 1, error |-> ""]

Undefined == [kind |-> "undefined", n |-> 0, d |-> 1, error |-> ""]

Throws(error) == [kind |-> "threw", n |-> 0, d |-> 1, error |-> error]

\* trajectories.map((t) => t[t.length - 1].balance): t[-1] of a trajectory
\* without days is undefined and reading its balance throws
HasEmptyTrajectory(trajs) == \E t \in 1..Len(trajs) : Len(trajs[t]) = 0

finalBalances(trajs) ==
  [t \in 1..Len(trajs) |-> trajs[t][Len(trajs[t])].balance]

\* [...finalBalances].sort((a, b) => a - b)
RECURSIVE Insert(_, _)
Insert(x, q) ==
  IF q = <<>> THEN <<x>>
  ELSE IF x <= Head(q) THEN <<x>> \o q
  ELSE <<Head(q)>> \o Insert(x, Tail(q))

RECURSIVE sorted(_)
sorted(q) == IF q = <<>> THEN <<>> ELSE Insert(Head(q), sorted(Tail(q)))

\* Math.floor(sorted.length * percentile), the percentile in hundredths
PercentileIndex(length, percentile) == (length * percentile) \div 100

\* Math.max(0, index)
VaRIndex(length, index) == Max(0, index)

\* calculateVaR: sorted[i] is undefined when i is not an index of sorted
calculateVaR(trajs, percentile) ==
  IF HasEmptyTrajectory(trajs) THEN Throws("TypeError")
  ELSE
    LET s == sorted(finalBalances(trajs))
        i == VaRIndex(Len(s), PercentileIndex(Len(s), percentile))
    IN IF i < Len(s) THEN Number(s[i + 1], 1) ELSE Undefined

\* sorted.slice(0, end)
SliceTo(q, end) ==
  LET k == IF end < 0 THEN Max(Len(q) + end, 0) ELSE Min(end, Len(q))
  IN SubSeq(q, 1, k)

\* calculateCVaR: the mean of no values is 0 / 0
calculateCVaR(trajs, percentile) ==
  IF HasEmptyTrajectory(trajs) THEN Throws("TypeError")
  ELSE
    LET s == sorted(finalBalances(trajs))
        cutoffIndex == PercentileIndex(Len(s), percentile)
        worstValues == SliceTo(s, cutoffIndex + 1)
    IN IF Len(worstValues) = 0 THEN NotANumber
       ELSE Number(SumSeq(worstValues), Len(worstValues))

SlopeTest_positive(balance) == balance > 0

\* the `state.balance >= 0` of the recovery test of calculateRecoverySlope
SlopeTest(balance) == balance >= 0

\* the forEach of calculateRecoverySlope from day `day` (0-based) on
RECURSIVE SlopeDays(_, _, _)
SlopeDays(st, trajectory, day) ==
  IF day >= Len(trajectory) THEN st
  ELSE
    LET state == trajectory[day + 1]
        s1 == IF st.collapseDay = -1 /\ state.balance < 0
              THEN [st EXCEPT !.collapseDay = day] ELSE st
        s2 == IF s1.collapseDay > -1 /\ s1.recoveryDay = -1
                 /\ SlopeTest(state.balance)
              THEN [s1 EXCEPT !.recoveryDay = day] ELSE s1
    IN SlopeDays(s2, trajectory, day + 1)

calculateRecoverySlope(trajectory) ==
  LET end == SlopeDays([collapseDay |-> -1, recoveryDay |-> -1], trajectory, 0)
  IN IF end.collapseDay = -1 \/ end.recoveryDay = -1 THEN Number(-1, 1)
     ELSE Number(end.recoveryDay - end.collapseDay, 1)

-----------------------------------------------------------------------------
(* AssetEngine.getLiquidityRatio                                           *)

\* a WalletState: the fields getLiquidityRatio reads, and its date
WalletOf(balance, assets, date) ==
  [balance |-> balance, assets |-> assets, date |-> date]

\* the reduce of calculateNAV and getLiquidFunds from index i on: the sum
\* of the converted amounts, or the error convert throws
RECURSIVE SumConverted(_, _, _, _, _)
SumConverted(rates, assets, baseCurrency, i, total) ==
  IF i > Len(assets) THEN [threw |-> FALSE, total |-> total]
  ELSE
    LET converted == convert(rates, assets[i].amount, assets[i].currency,
                             baseCurrency)
    IN IF converted.threw THEN [threw |-> TRUE, total |-> total]
       ELSE SumConverted(rates, assets, baseCurrency, i + 1,
                         total + converted.value)

calculateNAV(rates, assets, baseCurrency) ==
  SumConverted(rates, assets, baseCurrency, 1, 0)

\* `a.liquidityClass === "liquid" && !a.lockedUntil`
IsLiquidFunds(a) ==
  a.liquidityClass = "liquid" /\ a.lockedUntil.type = "undefined"

getLiquidFunds(rates, assets, baseCurrency) ==
  SumConverted(rates, SelectSeq(assets, IsLiquidFunds), baseCurrency, 1, 0)

\* Math.min(liquidFunds / totalWealth, 1) for totalWealth /= 0, as a
\* fraction with a positive denominator
RatioAtMostOne(liquidFunds, totalWealth) ==
  IF totalWealth > 0
  THEN IF liquidFunds < totalWealth THEN Number(liquidFunds, totalWealth)
       ELSE Number(1, 1)
  ELSE IF liquidFunds > totalWealth THEN Number(-liquidFunds, -totalWealth)
       ELSE Number(1, 1)

getLiquidityRatio(rates, state) ==
  LET totalAssets == calculateNAV(rates, state.assets, "USD")
      liquidFunds == getLiquidFunds(rates, state.assets, "USD")
      totalWealth == state.balance + totalAssets.total
  IN IF totalAssets.threw \/ liquidFunds.threw THEN Throws("Error")
     ELSE IF totalWealth = 0 THEN Number(0, 1)
     ELSE RatioAtMostOne(liquidFunds.total, totalWealth)

-----------------------------------------------------------------------------
(* The threshold tables of RiskEngine, StatsEngine and CreditEngine        *)

\* RiskEngine.getRiskLevel, the probability in hundredths
riskGetRiskLevel(collapseProbability) ==
  IF collapseProbability < 10 THEN "low"
  ELSE IF collapseProbability < 25 THEN "moderate"
  ELSE IF collapseProbability < 50 THEN "high"
  ELSE "critical"

\* StatsEngine.getRiskLevel
statsGetRiskLevel(prob) ==
  IF prob < 10 THEN "low"
  ELSE IF prob < 25 THEN "moderate"
  ELSE IF prob < 50 THEN "high"
  ELSE "critical"

\* CreditEngine.getCreditTier
creditGetCreditTier(score) ==
  IF score >= 750 THEN "excellent"
  ELSE IF score >= 670 THEN "good"
  ELSE IF score >= 580 THEN "fair"
  ELSE IF score >= 450 THEN "poor"
  ELSE "bad"

\* StatsEngine.getCreditTier
statsGetCreditTier(score) ==
  IF score >= 750 THEN "excellent"
  ELSE IF score >= 670 THEN "good"
  ELSE IF score >= 580 THEN "fair"
  ELSE IF score >= 450 THEN "poor"
  ELSE "bad"

Tiers == {"excellent", "good", "fair", "poor", "bad"}

Bucket_drifted(score) ==
  IF score > 750 THEN "excellent"
  ELSE IF score >= 670 THEN "good"
  ELSE IF score >= 580 THEN "fair"
  ELSE IF score >= 450 THEN "poor"
  ELSE "bad"

\* the if / else if chain of calculateCreditStats: the counter a score adds to
Bucket(score) ==
  IF score >= 750 THEN "excellent"
  ELSE IF score >= 670 THEN "good"
  ELSE IF score >= 580 THEN "fair"
  ELSE IF score >= 450 THEN "poor"
  ELSE "bad"

\* the forEach over finalCreditScores from index i on
RECURSIVE Distribute(_, _, _)
Distribute(distribution, finalCreditScores, i) ==
  IF i > Len(finalCreditScores) THEN distribution
  ELSE Distribute([distribution EXCEPT ![Bucket(finalCreditScores[i])] = @ + 1],
                  finalCreditScores, i + 1)

\* calculateCreditStats on trajectories of integer credit scores: the mean
\* in hundredths, the first trajectory's scores, and each tier's share of
\* the final scores in hundredths of a percent
calculateCreditStats(trajs, finalCreditScores) ==
  LET distribution == Distribute([tier \in Tiers |-> 0], finalCreditScores, 1)
      total == Len(finalCreditScores)
  IN [mean |-> Ratio(SumSeq(finalCreditScores), total, 2),
      evolution |-> IF Len(trajs) > 0
                    THEN [d \in 1..Len(trajs[1]) |-> trajs[1][d].creditScore]
                    ELSE <<>>,
      finalDistribution |->
        [tier \in Tiers |-> Ratio(distribution[tier] * 100, total, 2)]]

-----------------------------------------------------------------------------
(* The state before any call                                               *)

\* no resolver call made yet
NoCall ==
  [op |-> "none", amount |-> 0, from |-> "", to |-> "", out |-> Returned(0)]

\* no generator built, no revaluation made
NoGen == [m_w |-> 0, zh |-> 0, zl |-> 0, count |-> 0]

NoReval == [called |-> FALSE, assets |-> <<>>, seed |-> 0, out |-> <<>>, draws |-> 0]

RevalIdle ==
  /\ gen = NoGen
  /\ prevReval = NoReval
  /\ lastReval = NoReval

NoLiq ==
  [state |-> "idle", deficitAmount |-> 0, remainingDeficit |-> 0,
   liquidatedAssets |-> 0, trace |-> <<>>, rawRemaining |-> 0]

LiqIdle ==
  /\ objs = <<>>
  /\ arrs = <<>>
  /\ callerAssets = 0
  /\ atCall = <<>>
  /\ today = 0
  /\ liq = NoLiq

\* no other RiskEngine method called
NoRiskCall == [op |-> "none", percentile |-> 0, t |-> 0, out |-> Undefined]

\* no snapshot taken: taken, restored, changed and updates follow the calls
\* made, atTake keeps the engine's table as it was when the snapshot was
\* taken
NoSnapshot ==
  [taken |-> FALSE, rates |-> <<>>, shared |-> FALSE, atTake |-> <<>>,
   restored |-> FALSE, changed |-> FALSE, updates |-> 0]

\* no level or tier asked for yet
NoTiers ==
  [kind |-> "none", value |-> 0, riskLevel |-> "", statsRiskLevel |-> "",
   creditTier |-> "", statsCreditTier |-> "", creditStats |-> <<>>]

TierIdle == tiers = NoTiers

NoRatio == [called |-> FALSE, out |-> Undefined]

RatioIdle ==
  /\ wallet = WalletOf(0, <<>>, 0)
  /\ liquidity = NoRatio

RiskIdle ==
  /\ trajectories = <<>>
  /\ risk = NoRisk
  /\ riskCall = NoRiskCall

-----------------------------------------------------------------------------
(* CurrencyEngine: calls                                                   *)

\* rates a caller may pass to setRates: any subset of these stored pairs
CandidateRates ==
  (PairKey("GBP", "PKR") :> Rate(3512, 10)) @@
  (PairKey("PKR", "GBP") :> Rate(3, 1000)) @@
  (PairKey("GBP", "USD") :> Rate(125, 100)) @@
  (PairKey("USD", "PKR") :> Rate(2785, 10)) @@
  (PairKey("GBP", "EUR") :> Rate(117, 100)) @@
  (PairKey("EUR", "PKR") :> Rate(3027, 10)) @@
  (PairKey("USD", "EUR") :> Rate(92, 100))

RateTables ==
  {[p \in S |-> CandidateRates[p]] : S \in SUBSET (DOMAIN CandidateRates)}

\* amounts handed to convert, in model units
ConvertAmounts == {-160, 0, 160, 1000}

ResolverInit ==
  /\ exchangeRates = DefaultRates
  /\ lastCall = NoCall
  /\ snapshot = NoSnapshot
  /\ LiqIdle
  /\ RevalIdle
  /\ RatioIdle
  /\ RiskIdle
  /\ TierIdle

\* setRates(rates): this.exchangeRates = { ...rates }
SetRates(rates) ==
  /\ exchangeRates' = setRates(rates).rates
  /\ lastCall' = [NoCall EXCEPT !.op = "setRates"]
  /\ snapshot' = [snapshot EXCEPT !.shared = setRates(rates).shared,
                                  !.restored = FALSE, !.changed = @ \/ snapshot.taken]
  /\ UNCHANGED <<liqVars, revalVars, riskVars, ratioVars, tiers>>

Convert(amount, from, to) ==
  /\ lastCall' = [op |-> "convert", amount |-> amount, from |-> from, to |-> to,
                  out |-> convert(exchangeRates, amount, from, to)]
  /\ UNCHANGED <<exchangeRates, snapshot>>
  /\ UNCHANGED <<liqVars, revalVars, riskVars, ratioVars, tiers>>

GetRate(from, to) ==
  /\ lastCall' = [op |-> "getRate", amount |-> 0, from |-> from, to |-> to,
                  out |-> getRate(exchangeRates, from, to)]
  /\ UNCHANGED <<exchangeRates, snapshot>>
  /\ UNCHANGED <<liqVars, revalVars, riskVars, ratioVars, tiers>>

ResolverNext ==
  \/ \E rates \in RateTables : SetRates(rates)
  \/ \E amount \in ConvertAmounts, from \in Currencies, to \in Currencies :
       Convert(amount, from, to)
  \/ \E from \in Currencies, to \in Currencies : GetRate(from, to)

SpecResolver == ResolverInit /\ [][ResolverNext]_vars

-----------------------------------------------------------------------------
(* CurrencyEngine: snapshot and restore                                    *)

\* bound on the updateRates calls of a run
MaxUpdates == 1

\* the values (Math.random() - 0.5) * volatility takes, in hundredths
Shocks == {-50, 50}

\* the tables handed to setRates between snapshot and restore
SnapshotTables ==
  {DefaultRates,
   (PairKey("USD", "EUR") :> Rate(92, 100)) @@ (PairKey("EUR", "PKR") :> Rate(3027, 10))}

SnapshotAmounts == {160}

SnapshotInit == ResolverInit

GetRatesSnapshot ==
  /\ ~snapshot.taken
  /\ LET s == getRatesSnapshot(exchangeRates)
     IN snapshot' = [snapshot EXCEPT !.taken = TRUE, !.rates = s.rates,
                                     !.shared = s.shared,
                                     !.atTake = exchangeRates]
  /\ lastCall' = [NoCall EXCEPT !.op = "getRatesSnapshot"]
  /\ UNCHANGED exchangeRates
  /\ UNCHANGED <<liqVars, revalVars, riskVars, ratioVars, tiers>>

\* updateRates writes into the engine's own object: a snapshot that shares
\* it changes with it
UpdateRates(shocks) ==
  /\ snapshot.updates < MaxUpdates
  /\ exchangeRates' = updateRates(exchangeRates, shocks)
  /\ snapshot' = [snapshot EXCEPT
                    !.rates = IF snapshot.shared THEN exchangeRates' ELSE @,
                    !.restored = FALSE, !.changed = @ \/ snapshot.taken,
                    !.updates = @ + 1]
  /\ lastCall' = [NoCall EXCEPT !.op = "updateRates"]
  /\ UNCHANGED <<liqVars, revalVars, riskVars, ratioVars, tiers>>

\* setRates(s) with the snapshot s
Restore ==
  /\ snapshot.taken
  /\ exchangeRates' = setRates(snapshot.rates).rates
  /\ snapshot' = [snapshot EXCEPT !.shared = setRates(snapshot.rates).shared,
                                  !.restored = TRUE]
  /\ lastCall' = [NoCall EXCEPT !.op = "setRates"]
  /\ UNCHANGED <<liqVars, revalVars, riskVars, ratioVars, tiers>>

\* convert and getRate are looked at once the snapshot is restored; they
\* change nothing, so earlier calls of them are left out
SnapshotNext ==
  \/ GetRatesSnapshot
  \/ \E shocks \in [DOMAIN exchangeRates -> Shocks] : UpdateRates(shocks)
  \/ \E rates \in SnapshotTables : SetRates(rates)
  \/ Restore
  \/ \E amount \in SnapshotAmounts, from \in Currencies, to \in Currencies :
       snapshot.restored /\ Convert(amount, from, to)
  \/ \E from \in Currencies, to \in Currencies :
       snapshot.restored /\ GetRate(from, to)

SpecSnapshot == SnapshotInit /\ [][SnapshotNext]_vars

-----------------------------------------------------------------------------
(* liquidateForDeficit: calls                                              *)

\* bounds and inputs of the liquidation runs
MaxAssets == 3

LockDay == 3

Dates == {1, 5}

Deficits == {0, 2000, 5000, 15000}

\* JPY has no stored rate: convert throws for it
AssetChoices ==
  {AssetOf(4000, "USD", 0, k, NoDate) : k \in {"liquid", "yield", "volatile", "illiquid"}}
  \cup {AssetOf(4000, "GBP", 0, k, NoDate) : k \in {"liquid", "volatile"}}
  \cup {AssetOf(4000, "PKR", 0, k, NoDate) : k \in {"yield", "illiquid"}}
  \cup {AssetOf(4000, "USD", 0, "liquid", DateOf(LockDay)),
        AssetOf(0, "USD", 0, "liquid", NoDate),
        AssetOf(4000, "JPY", 0, "yield", NoDate)}

AssetLists == UNION {[1..n -> AssetChoices] : n \in 0..MaxAssets}

\* the value of the list at array address ref
ListAt(os, as, ref) == [i \in 1..Len(as[ref]) |-> os[as[ref][i]]]

LiqInit ==
  /\ exchangeRates = DefaultRates
  /\ lastCall = NoCall
  /\ snapshot = NoSnapshot
  /\ \E list \in AssetLists :
       /\ objs = list
       /\ arrs = << [i \in 1..Len(list) |-> i] >>
       /\ atCall = list
  /\ callerAssets = 1
  /\ today \in Dates
  /\ \E d \in Deficits : liq = [NoLiq EXCEPT !.deficitAmount = d]
  /\ RevalIdle
  /\ RatioIdle
  /\ RiskIdle
  /\ TierIdle

Liquidate ==
  /\ liq.state = "idle"
  /\ LET r == liquidateForDeficit(exchangeRates, objs, arrs, callerAssets,
                                  liq.deficitAmount)
     IN IF r.threw
        THEN /\ liq' = [liq EXCEPT !.state = "threw"]
             /\ objs' = r.objs
             /\ arrs' = r.arrs
        ELSE /\ liq' = [state |-> "returned", deficitAmount |-> liq.deficitAmount,
                        remainingDeficit |-> r.remainingDeficit,
                        liquidatedAssets |-> r.liquidatedAssets,
                        trace |-> r.trace, rawRemaining |-> r.rawRemaining]
             /\ objs' = r.objs
             /\ arrs' = r.arrs
  /\ UNCHANGED <<curVars, revalVars, riskVars, ratioVars, tiers,
               callerAssets, atCall,
               today>>

\* the caller writes to an asset of the returned list
CallerSetsAmount(i, v) ==
  /\ liq.state = "returned"
  /\ i \in 1..Len(arrs[liq.liquidatedAssets])
  /\ objs' = [objs EXCEPT ![arrs[liq.liquidatedAssets][i]].amount = v]
  /\ liq' = [liq EXCEPT !.state = "changed"]
  /\ UNCHANGED <<curVars, revalVars, riskVars, ratioVars, tiers, arrs,
               callerAssets,
               atCall, today>>

\* the caller removes the last asset of the returned list
CallerPops ==
  /\ liq.state = "returned"
  /\ Len(arrs[liq.liquidatedAssets]) > 0
  /\ arrs' = [arrs EXCEPT ![liq.liquidatedAssets] = SubSeq(@, 1, Len(@) - 1)]
  /\ liq' = [liq EXCEPT !.state = "changed"]
  /\ UNCHANGED <<curVars, revalVars, riskVars, ratioVars, tiers, objs,
               callerAssets,
               atCall, today>>

LiqNext ==
  \/ Liquidate
  \/ \E i \in 1..MaxAssets : CallerSetsAmount(i, 7777)
  \/ CallerPops

SpecLiquidate == LiqInit /\ [][LiqNext]_vars

-----------------------------------------------------------------------------
(* revalueAssets: calls                                                    *)

\* bounds and inputs of the revaluation runs
MaxRevalued == 2

Seeds == {1, 12345}

RevalChoices ==
  {AssetOf(300, "USD", 10, "volatile", NoDate),
   AssetOf(300, "USD", 50, "volatile", NoDate),
   AssetOf(600, "USD", 50, "volatile", NoDate)}

RevalLists == UNION {[1..n -> RevalChoices] : n \in 0..MaxRevalued}

RevalInit ==
  /\ exchangeRates = DefaultRates
  /\ lastCall = NoCall
  /\ snapshot = NoSnapshot
  /\ LiqIdle
  /\ RevalIdle
  /\ RatioIdle
  /\ RiskIdle
  /\ TierIdle

Revalue(assets, seed) ==
  /\ LET r == revalueAssets(assets, seed)
     IN /\ gen' = r.gen
        /\ lastReval' = [called |-> TRUE, assets |-> assets, seed |-> seed,
                         out |-> r.out,
                         draws |-> r.gen.count - seededRNG(seed).count]
  /\ prevReval' = lastReval
  /\ UNCHANGED <<curVars, liqVars, riskVars, ratioVars, tiers>>

RevalNext == \E assets \in RevalLists, seed \in Seeds : Revalue(assets, seed)

SpecRevalue == RevalInit /\ [][RevalNext]_vars

-----------------------------------------------------------------------------
(* RiskEngine: calls                                                       *)

\* bounds and inputs of the risk runs
MaxDays == 2

MaxTrajectories == 2

Balances == {-1, 0, 2}

\* percentiles in hundredths: inside [0, 1] and on either side of it
Percentiles == {-50, 0, 50, 100, 150}

Trajectories == UNION {[1..n -> {DayOf(b) : b \in Balances}] : n \in 0..MaxDays}

RiskInit ==
  /\ exchangeRates = DefaultRates
  /\ lastCall = NoCall
  /\ snapshot = NoSnapshot
  /\ LiqIdle
  /\ RevalIdle
  /\ RatioIdle
  /\ TierIdle
  /\ \E n \in 0..MaxTrajectories : trajectories \in [1..n -> Trajectories]
  /\ risk = NoRisk
  /\ riskCall = NoRiskCall

\* each run makes one call on its ensemble: the methods keep no state
NotCalled == risk.state = "idle" /\ riskCall.op = "none"

CalculateCollapseProbability ==
  /\ NotCalled
  /\ risk' = calculateCollapseProbability(trajectories)
  /\ UNCHANGED <<curVars, liqVars, revalVars, ratioVars, tiers,
               trajectories, riskCall>>

CalculateVaR(percentile) ==
  /\ NotCalled
  /\ riskCall' = [op |-> "calculateVaR", percentile |-> percentile, t |-> 0,
                  out |-> calculateVaR(trajectories, percentile)]
  /\ UNCHANGED <<curVars, liqVars, revalVars, ratioVars, tiers,
               trajectories, risk>>

CalculateCVaR(percentile) ==
  /\ NotCalled
  /\ riskCall' = [op |-> "calculateCVaR", percentile |-> percentile, t |-> 0,
                  out |-> calculateCVaR(trajectories, percentile)]
  /\ UNCHANGED <<curVars, liqVars, revalVars, ratioVars, tiers,
               trajectories, risk>>

\* calculateRecoverySlope on trajectory t of the ensemble
CalculateRecoverySlope(t) ==
  /\ NotCalled
  /\ t \in 1..Len(trajectories)
  /\ riskCall' = [op |-> "calculateRecoverySlope", percentile |-> 0, t |-> t,
                  out |-> calculateRecoverySlope(trajectories[t])]
  /\ UNCHANGED <<curVars, liqVars, revalVars, ratioVars, tiers,
               trajectories, risk>>

RiskNext ==
  \/ CalculateCollapseProbability
  \/ \E percentile \in Percentiles : CalculateVaR(percentile)
  \/ \E percentile \in Percentiles : CalculateCVaR(percentile)
  \/ \E t \in 1..MaxTrajectories : CalculateRecoverySlope(t)

SpecRisk == RiskInit /\ [][RiskNext]_vars

-----------------------------------------------------------------------------
(* getLiquidityRatio: calls                                                *)

WalletBalances == {-4000, 0, 4000}

RatioInit ==
  /\ exchangeRates = DefaultRates
  /\ lastCall = NoCall
  /\ snapshot = NoSnapshot
  /\ LiqIdle
  /\ RevalIdle
  /\ RiskIdle
  /\ TierIdle
  /\ \E balance \in WalletBalances, assets \in AssetLists, date \in Dates :
       wallet = WalletOf(balance, assets, date)
  /\ liquidity = NoRatio

GetLiquidityRatio ==
  /\ ~liquidity.called
  /\ liquidity' = [called |-> TRUE,
                   out |-> getLiquidityRatio(exchangeRates, wallet)]
  /\ UNCHANGED <<curVars, liqVars, revalVars, riskVars, wallet, tiers>>

RatioNext == GetLiquidityRatio

SpecLiquidity == RatioInit /\ [][RatioNext]_vars

-----------------------------------------------------------------------------
(* Threshold tables: calls                                                 *)

\* collapse probabilities in hundredths, and credit scores
Probabilities == 0..100

Scores == 300..850

TierInit ==
  /\ exchangeRates = DefaultRates
  /\ lastCall = NoCall
  /\ snapshot = NoSnapshot
  /\ LiqIdle
  /\ RevalIdle
  /\ RatioIdle
  /\ RiskIdle
  /\ \/ \E p \in Probabilities :
          tiers = [NoTiers EXCEPT !.kind = "probability", !.value = p]
     \/ \E score \in Scores :
          tiers = [NoTiers EXCEPT !.kind = "score", !.value = score]

RiskGetRiskLevel ==
  /\ tiers.kind = "probability" /\ tiers.riskLevel = ""
  /\ tiers' = [tiers EXCEPT !.riskLevel = riskGetRiskLevel(tiers.value)]
  /\ UNCHANGED <<curVars, liqVars, revalVars, riskVars, ratioVars>>

StatsGetRiskLevel ==
  /\ tiers.kind = "probability" /\ tiers.statsRiskLevel = ""
  /\ tiers' = [tiers EXCEPT !.statsRiskLevel = statsGetRiskLevel(tiers.value)]
  /\ UNCHANGED <<curVars, liqVars, revalVars, riskVars, ratioVars>>

CreditGetCreditTier ==
  /\ tiers.kind = "score" /\ tiers.creditTier = ""
  /\ tiers' = [tiers EXCEPT !.creditTier = creditGetCreditTier(tiers.value)]
  /\ UNCHANGED <<curVars, liqVars, revalVars, riskVars, ratioVars>>

StatsGetCreditTier ==
  /\ tiers.kind = "score" /\ tiers.statsCreditTier = ""
  /\ tiers' = [tiers EXCEPT !.statsCreditTier = statsGetCreditTier(tiers.value)]
  /\ UNCHANGED <<curVars, liqVars, revalVars, riskVars, ratioVars>>

\* calculateCreditStats on one trajectory of one day with the score
CalculateCreditStats ==
  /\ tiers.kind = "score" /\ tiers.creditStats = <<>>
  /\ tiers' = [tiers EXCEPT !.creditStats =
                 calculateCreditStats(<< <<[creditScore |-> tiers.value]>> >>,
                                      <<tiers.value>>)]
  /\ UNCHANGED <<curVars, liqVars, revalVars, riskVars, ratioVars>>

TierNext ==
  \/ RiskGetRiskLevel
  \/ StatsGetRiskLevel
  \/ CreditGetCreditTier
  \/ StatsGetCreditTier
  \/ CalculateCreditStats

SpecTiers == TierInit /\ [][TierNext]_vars

-----------------------------------------------------------------------------
(* Claims about liquidateForDeficit                                        *)

\* the returned list, by value
Liquidated == ListAt(objs, arrs, liq.liquidatedAssets)

\* C1 as claimed: an asset whose lockedUntil is later than the current date
\* has the same amount in the returned list as in the input.
C1_LockedNeverSold ==
  liq.state = "returned" =>
    \A i \in 1..Len(atCall) :
      isAssetLocked(atCall[i], today) => Liquidated[i].amount = atCall[i].amount

\* C2: the caller's list keeps its length, order and assets through the call
\* and through later changes to the returned list, and the returned list
\* shares neither its array nor any asset object with the input.
C2_InputUnchanged ==
  /\ ListAt(objs, arrs, callerAssets) = atCall
  /\ liq.state \in {"returned", "changed"} =>
       /\ liq.liquidatedAssets /= callerAssets
       /\ \A i \in 1..Len(arrs[liq.liquidatedAssets]), j \in 1..Len(arrs[callerAssets]) :
            arrs[liq.liquidatedAssets][i] /= arrs[callerAssets][j]

\* C2 witness: the call sold something and the caller then wrote to the result.
C2_Witness ==
  /\ liq.state = "changed"
  /\ liq.remainingDeficit < liq.deficitAmount
  /\ \E i \in 1..Len(Liquidated) :
       Liquidated[i].amount = 7777 /\ atCall[i].amount /= 7777

\* C3: every returned amount lies between 0 and the input amount.
C3_AmountsBounded ==
  liq.state = "returned" =>
    /\ Len(Liquidated) = Len(atCall)
    /\ \A i \in 1..Len(atCall) :
         0 <= Liquidated[i].amount /\ Liquidated[i].amount <= atCall[i].amount

\* C3 witness: one asset drained to 0 and another sold in part.
C3_Witness ==
  /\ liq.state = "returned"
  /\ \E i, j \in 1..Len(atCall) :
       /\ atCall[i].amount > 0 /\ Liquidated[i].amount = 0
       /\ 0 < Liquidated[j].amount /\ Liquidated[j].amount < atCall[j].amount

ClassRank(c) ==
  CASE c = "liquid" -> 1 [] c = "yield" -> 2 [] c = "volatile" -> 3 [] c = "illiquid" -> 4

\* asset i of the list comes before asset j in waterfall order
Before(list, i, j) ==
  \/ ClassRank(list[i].liquidityClass) < ClassRank(list[j].liquidityClass)
  \/ /\ list[i].liquidityClass = list[j].liquidityClass
     /\ i < j

\* the list position of the t-th processed object
TracePos(t) ==
  CHOOSE i \in 1..Len(arrs[liq.liquidatedAssets]) :
    arrs[liq.liquidatedAssets][i] = liq.trace[t].obj

Traced == {TracePos(t) : t \in 1..Len(liq.trace)}

\* C4: assets are processed in waterfall order (class by class, array order
\* within a class) with none skipped, each one met a deficit above 0, the
\* processing goes on while the deficit is above 0, and every asset that was
\* not reached keeps its input amount.
C4_WaterfallOrder ==
  liq.state = "returned" =>
    /\ \A s, t \in 1..Len(liq.trace) : s < t => Before(atCall, TracePos(s), TracePos(t))
    /\ \A i \in 1..Len(atCall) : \A j \in Traced :
         Before(atCall, i, j) => i \in Traced
    /\ \A t \in 1..Len(liq.trace) : liq.trace[t].met > 0
    /\ liq.rawRemaining > 0 => Traced = 1..Len(atCall)
    /\ \A i \in (1..Len(atCall)) \ Traced : Liquidated[i].amount = atCall[i].amount

\* C4 witness: two assets were processed, the deficit was covered, and an
\* asset standing earlier in the array was left alone because of its class.
C4_Witness ==
  /\ liq.state = "returned"
  /\ Len(liq.trace) = 2
  /\ liq.rawRemaining <= 0
  /\ \E i \in (1..Len(atCall)) \ Traced : \E j \in Traced :
       i < j /\ atCall[i].amount > 0

\* net proceeds taken off the deficit over the whole call
TotalProceeds == liq.deficitAmount - liq.rawRemaining

\* C5 as claimed, with one 10^-6 rounding step allowed: the net proceeds taken
\* off the deficit do not exceed the deficit asked for.
C5_ProceedsWithinDeficit ==
  (liq.state = "returned" /\ liq.deficitAmount > 0) =>
    TotalProceeds <= liq.deficitAmount + Step

-----------------------------------------------------------------------------
(* Claims about the resolver                                               *)

\* a one-hop path through intermediary X, both legs stored forward
OneHop(rates, from, to, X) ==
  /\ X /= from
  /\ X /= to
  /\ PairKey(from, X) \in DOMAIN rates
  /\ PairKey(X, to) \in DOMAIN rates

HopRate(rates, from, to, X) ==
  RateMul(rates[PairKey(from, X)], rates[PairKey(X, to)])

HasRoute(rates, from, to) ==
  \/ PairKey(from, to) \in DOMAIN rates
  \/ PairKey(to, from) \in DOMAIN rates
  \/ OneHop(rates, from, to, "USD")
  \/ OneHop(rates, from, to, "EUR")

\* the rate the stated precedence gives, for a pair that has a route
PrecedenceRate(rates, from, to) ==
  CASE PairKey(from, to) \in DOMAIN rates -> rates[PairKey(from, to)]
    [] PairKey(from, to) \notin DOMAIN rates /\ PairKey(to, from) \in DOMAIN rates ->
         Recip(rates[PairKey(to, from)])
    [] OTHER ->
         IF OneHop(rates, from, to, "USD") THEN HopRate(rates, from, to, "USD")
         ELSE HopRate(rates, from, to, "EUR")

\* C6: convert(amount, from, to) with from /= to uses the stored forward pair,
\* else the reciprocal of the stored reverse pair, else the product through
\* the first of USD, EUR that has both legs stored forward; the result is
\* amount times that rate at 6 decimals.
C6_ConvertPrecedence ==
  (lastCall.op = "convert" /\ lastCall.from /= lastCall.to
     /\ HasRoute(exchangeRates, lastCall.from, lastCall.to)) =>
    LET r == PrecedenceRate(exchangeRates, lastCall.from, lastCall.to) IN
      /\ ~lastCall.out.threw
      /\ lastCall.out.value = ToFixed6(lastCall.amount * r.n, r.d)

\* C6 witness: only USD/EUR and EUR/PKR stored, USD to PKR went through EUR.
C6_Witness ==
  /\ DOMAIN exchangeRates = {PairKey("USD", "EUR"), PairKey("EUR", "PKR")}
  /\ lastCall.op = "convert"
  /\ lastCall.from = "USD" /\ lastCall.to = "PKR" /\ lastCall.amount = 1000
  /\ ~lastCall.out.threw
  /\ lastCall.out.value = ToFixed6(1000 * 92 * 3027, 100 * 10)

\* C7 as claimed: for from /= to, convert and getRate alike throw, naming the
\* requested pair, exactly when no forward pair, no reverse pair and no
\* one-hop path through USD or EUR is stored.
C7_ThrowsIffNoRoute ==
  (lastCall.op \in {"convert", "getRate"} /\ lastCall.from /= lastCall.to) =>
    /\ lastCall.out.threw <=> ~HasRoute(exchangeRates, lastCall.from, lastCall.to)
    /\ lastCall.out.threw => lastCall.out.pair = PairKey(lastCall.from, lastCall.to)

\* C8 as claimed: convert(x, A, A) is x with the digits beyond the sixth dropped.
C8_IdentityTruncates ==
  (lastCall.op = "convert" /\ lastCall.from = lastCall.to) =>
    /\ ~lastCall.out.threw
    /\ lastCall.out.value = Truncate6(lastCall.amount)

-----------------------------------------------------------------------------
(* Claims about revalueAssets                                              *)

\* C9: two calls with the same seed and the same list return the same list;
\* with the same seed, equal assets at the same index get equal results
\* whatever the other assets are; each call draws once per asset.
C9_RevalueDeterministic ==
  /\ lastReval.called =>
       /\ lastReval.draws = Len(lastReval.assets)
       /\ Len(lastReval.out) = Len(lastReval.assets)
  /\ (prevReval.called /\ lastReval.called /\ prevReval.seed = lastReval.seed) =>
       /\ prevReval.assets = lastReval.assets => prevReval.out = lastReval.out
       /\ \A i \in 1..Min(Len(prevReval.assets), Len(lastReval.assets)) :
            prevReval.assets[i] = lastReval.assets[i] =>
              prevReval.out[i] = lastReval.out[i]

\* C9 witness: two calls with one seed whose lists differ at index 1 and
\* agree at index 2, where the asset's amount was changed by the shock.
C9_Witness ==
  /\ prevReval.called /\ lastReval.called
  /\ prevReval.seed = lastReval.seed
  /\ Len(prevReval.assets) = 2 /\ Len(lastReval.assets) = 2
  /\ prevReval.assets[1] /= lastReval.assets[1]
  /\ prevReval.assets[2] = lastReval.assets[2]
  /\ lastReval.out[2].amount /= lastReval.assets[2].amount
  /\ lastReval.out[1].amount /= lastReval.assets[1].amount

-----------------------------------------------------------------------------
(* Claims about the RiskEngine                                             *)

\* the 0-based day on which trajectory t first has a balance below 0
Collapses(t) == \E d \in 1..Len(trajectories[t]) : trajectories[t][d].balance < 0

FirstNegativeDay(t) ==
  (CHOOSE d \in 1..Len(trajectories[t]) :
     /\ trajectories[t][d].balance < 0
     /\ \A e \in 1..(d - 1) : trajectories[t][e].balance >= 0) - 1

\* the collapsed trajectories, in ensemble order
CollapsedOnes == SelectSeq([t \in 1..Len(trajectories) |-> t], Collapses)

\* C10: for a non-empty ensemble collapseTimings holds one entry per
\* collapsed trajectory, its first day with balance < 0, and none for the
\* others; collapseProbability is the collapsed count over the ensemble
\* size, at 4 decimals, within [0, 1].
C10_CollapseOncePerTrajectory ==
  (risk.state = "returned" /\ Len(trajectories) > 0) =>
    /\ Len(risk.collapseTimings) <= Len(trajectories)
    /\ risk.collapseTimings =
         [k \in 1..Len(CollapsedOnes) |-> FirstNegativeDay(CollapsedOnes[k])]
    /\ ~risk.collapseProbability.nan
    /\ risk.collapseProbability.v >= 0
    /\ risk.collapseProbability.v <= Pow10(4)
    /\ risk.collapseProbability =
         Ratio(Len(CollapsedOnes), Len(trajectories), 4)

\* C10 witness: of two trajectories one never collapses and the other is
\* below 0 on both of its days; one timing, day 0, is recorded.
C10_Witness ==
  /\ risk.state = "returned"
  /\ Len(trajectories) = 2
  /\ ~Collapses(1)
  /\ Len(trajectories[2]) = 2
  /\ trajectories[2][1].balance < 0
  /\ trajectories[2][2].balance < 0
  /\ risk.collapseTimings = <<0>>
  /\ risk.collapseProbability = Num(5000)

\* trajectory t has a day with balance > 0 after its first day below 0
RecoversAfterCollapse(t) ==
  \E d \in 1..Len(trajectories[t]) :
    d - 1 > FirstNegativeDay(t) /\ trajectories[t][d].balance > 0

RecoveredOnes == SelectSeq(CollapsedOnes, RecoversAfterCollapse)

\* C11: recoveryRate is the number of collapsed trajectories with a day of
\* balance > 0 after their collapse day over the number of collapsed
\* trajectories, at 4 decimals, within [0, 1]; it is 1 when no trajectory
\* collapsed, and a trajectory that never collapsed is not counted.
C11_RecoveryRate ==
  risk.state = "returned" =>
    /\ ~risk.recoveryRate.nan
    /\ risk.recoveryRate.v >= 0
    /\ risk.recoveryRate.v <= Pow10(4)
    /\ risk.recoveryRate =
         IF Len(CollapsedOnes) = 0 THEN Num(Pow10(4))
         ELSE Ratio(Len(RecoveredOnes), Len(CollapsedOnes), 4)

\* C11 witness: two trajectories collapse on day 0, the first is above 0
\* the day after and the second only returns to 0; the rate is one half.
C11_Witness ==
  /\ risk.state = "returned"
  /\ Len(trajectories) = 2
  /\ Collapses(1) /\ RecoversAfterCollapse(1)
  /\ Collapses(2) /\ ~RecoversAfterCollapse(2)
  /\ trajectories[2][Len(trajectories[2])].balance = 0
  /\ risk.recoveryRate = Num(5000)

\* an ensemble the spec allows: at least one trajectory, none without days
ValidEnsemble == Len(trajectories) > 0 /\ ~HasEmptyTrajectory(trajectories)

\* C12 as claimed: on a non-empty ensemble, for percentiles p1 < p2 within
\* [0, 1], calculateVaR returns a final-day balance for both and the one
\* for p1 is at most the one for p2.
C12_VaRMonotone ==
  (riskCall.op = "calculateVaR" /\ ValidEnsemble
     /\ riskCall.percentile \in 0..100) =>
    /\ riskCall.out.kind = "number"
    /\ \E t \in 1..Len(trajectories) :
         riskCall.out.n = trajectories[t][Len(trajectories[t])].balance
    /\ \A p2 \in Percentiles :
         (riskCall.percentile < p2 /\ p2 <= 100) =>
           LET other == calculateVaR(trajectories, p2)
           IN other.kind = "number" /\ riskCall.out.n <= other.n

\* some method of the RiskEngine has been called and has ended
RiskCalled == risk.state /= "idle" \/ riskCall.op \in {"calculateVaR", "calculateCVaR"}

\* C13 as claimed: an ensemble operation given no trajectories, or a
\* trajectory without days, fails with InvalidInput and returns nothing.
C13_InvalidEnsembleRejected ==
  (RiskCalled /\ ~ValidEnsemble) =>
    IF risk.state /= "idle"
    THEN risk.state = "threw" /\ risk.error = "InvalidInput"
    ELSE riskCall.out.kind = "threw" /\ riskCall.out.error = "InvalidInput"

\* C14 as claimed: calculateVaR and calculateCVaR with a percentile outside
\* [0, 1] fail with InvalidInput and return no value.
C14_PercentileRejected ==
  (riskCall.op \in {"calculateVaR", "calculateCVaR"} /\ ValidEnsemble
     /\ riskCall.percentile \notin 0..100) =>
    riskCall.out.kind = "threw" /\ riskCall.out.error = "InvalidInput"

\* the running peak of trajectory t on day d (1-based)
RunningPeak(t, d) ==
  CHOOSE b \in {trajectories[t][e].balance : e \in 1..d} :
    \A e \in 1..d : trajectories[t][e].balance <= b

\* the declines from a running peak to the balance of the same or a later
\* day, as fractions of the peak; no decline is counted from a peak <= 0
Declines ==
  {[n |-> 0, d |-> 1]} \cup
  {[n |-> RunningPeak(td[1], td[2]) - trajectories[td[1]][td[2]].balance,
    d |-> RunningPeak(td[1], td[2])] :
     td \in {x \in (1..Len(trajectories)) \X (1..MaxDays) :
               x[2] <= Len(trajectories[x[1]]) /\ RunningPeak(x[1], x[2]) > 0}}

LargestDecline == CHOOSE f \in Declines : \A g \in Declines : g.n * f.d <= f.n * g.d

\* every trajectory's balance is non-decreasing day over day
NonDecreasing ==
  \A t \in 1..Len(trajectories) : \A d \in 1..(Len(trajectories[t]) - 1) :
    trajectories[t][d].balance <= trajectories[t][d + 1].balance

\* C15 as claimed: maxDrawdown is the largest decline from a running peak to
\* a balance of the same or a later day, in percent at 2 decimals, and 0
\* when every trajectory is non-decreasing.
C15_MaxDrawdownPeakToTrough ==
  (risk.state = "returned" /\ ValidEnsemble) =>
    /\ risk.maxDrawdown = Ratio(LargestDecline.n * 100, LargestDecline.d, 2).v
    /\ NonDecreasing => risk.maxDrawdown = 0

\* the trajectory calculateRecoverySlope was called on
Sloped == riskCall.t

\* calculateCollapseProbability counts the trajectory as recovered: alone
\* in an ensemble it gives the recovery rate 1
CountedRecovered(t) ==
  calculateCollapseProbability(<<trajectories[t]>>).recoveryRate = Num(Pow10(4))

\* after its collapse day trajectory t reaches balance 0 and never more
ReturnsToZeroOnly(t) ==
  /\ \E d \in 1..Len(trajectories[t]) :
       d - 1 > FirstNegativeDay(t) /\ trajectories[t][d].balance = 0
  /\ ~RecoversAfterCollapse(t)

\* C19 as claimed: a collapsed trajectory is counted as recovered in
\* recoveryRate exactly if calculateRecoverySlope returns other than -1.
C19_RecoveryNotionsAgree ==
  (riskCall.op = "calculateRecoverySlope" /\ Collapses(Sloped)) =>
    (CountedRecovered(Sloped) <=> riskCall.out.n /= -1)

\* C19 amended: a collapsed trajectory counted as recovered has a slope
\* other than -1, and a slope other than -1 comes without being counted
\* exactly if the balance after the collapse returns to 0 and never
\* exceeds it.
C19_RecoveryNotionsDifferAtZero ==
  (riskCall.op = "calculateRecoverySlope" /\ Collapses(Sloped)) =>
    /\ riskCall.out.kind = "number"
    /\ CountedRecovered(Sloped) => riskCall.out.n /= -1
    /\ (riskCall.out.n /= -1 /\ ~CountedRecovered(Sloped))
         <=> ReturnsToZeroOnly(Sloped)

\* C19 witness: the slope of a trajectory that collapses on day 0 and is at
\* exactly 0 the day after is 1, and the trajectory is not counted.
C19_Witness ==
  /\ riskCall.op = "calculateRecoverySlope"
  /\ trajectories[Sloped] = <<DayOf(-1), DayOf(0)>>
  /\ riskCall.out = Number(1, 1)
  /\ ~CountedRecovered(Sloped)

-----------------------------------------------------------------------------
(* Claims about getLiquidityRatio                                          *)

\* the liquid-class assets of the wallet that are not locked on its date
UnlockedLiquid ==
  SelectSeq(wallet.assets,
            LAMBDA a : a.liquidityClass = "liquid" /\ ~isAssetLocked(a, wallet.date))

\* C16 as claimed: getLiquidityRatio is liquidFunds / (balance + NAV), at
\* most 1 and 0 when balance + NAV is 0, where liquidFunds sums the liquid
\* assets with no lockedUntil or with a lockedUntil not later than the
\* current date.
C16_LiquidityRatio ==
  (liquidity.called /\ liquidity.out.kind = "number") =>
    LET nav == calculateNAV(exchangeRates, wallet.assets, "USD").total
        funds == SumConverted(exchangeRates, UnlockedLiquid, "USD", 1, 0).total
        wealth == wallet.balance + nav
        out == liquidity.out
    IN /\ out.n <= out.d
       /\ wealth = 0 => out.n = 0
       /\ wealth /= 0 =>
            LET claimed == RatioAtMostOne(funds, wealth)
            IN out.n * claimed.d = claimed.n * out.d

-----------------------------------------------------------------------------
(* Claims about the rate snapshot                                          *)

\* C17: the snapshot keeps the table it was taken from through every later
\* updateRates and setRates, and once setRates(snapshot) is called, convert
\* and getRate return what they would have returned on the table of the
\* moment the snapshot was taken, value or error.
C17_SnapshotRestores ==
  /\ snapshot.taken => snapshot.rates = snapshot.atTake
  /\ (snapshot.restored /\ lastCall.op = "convert") =>
       lastCall.out = convert(snapshot.atTake, lastCall.amount,
                              lastCall.from, lastCall.to)
  /\ (snapshot.restored /\ lastCall.op = "getRate") =>
       lastCall.out = getRate(snapshot.atTake, lastCall.from, lastCall.to)

\* C17 witness: rates were updated after the snapshot, the snapshot was
\* restored, and a convert between two currencies returned a value.
C17_Witness ==
  /\ snapshot.restored
  /\ snapshot.changed
  /\ snapshot.updates > 0
  /\ lastCall.op = "convert"
  /\ lastCall.from /= lastCall.to
  /\ ~lastCall.out.threw
  /\ lastCall.out.value > 0

-----------------------------------------------------------------------------
(* Claims about the threshold tables                                       *)

\* the tables as the spec states them
StatedRiskLevel(p) ==
  CASE p < 10 -> "low" [] p >= 10 /\ p < 25 -> "moderate"
    [] p >= 25 /\ p < 50 -> "high" [] OTHER -> "critical"

StatedCreditTier(score) ==
  CASE score >= 750 -> "excellent" [] score >= 670 /\ score < 750 -> "good"
    [] score >= 580 /\ score < 670 -> "fair"
    [] score >= 450 /\ score < 580 -> "poor" [] OTHER -> "bad"

\* the tier calculateCreditStats counted the single final score in
CountedTier ==
  CHOOSE tier \in Tiers : tiers.creditStats.finalDistribution[tier].v > 0

\* C18: both risk-level helpers give every probability the stated level,
\* and the two credit-tier helpers and the bucketing of
\* calculateCreditStats give every score the stated tier.
C18_TablesAgree ==
  /\ tiers.riskLevel /= "" => tiers.riskLevel = StatedRiskLevel(tiers.value)
  /\ tiers.statsRiskLevel /= "" =>
       tiers.statsRiskLevel = StatedRiskLevel(tiers.value)
  /\ (tiers.riskLevel /= "" /\ tiers.statsRiskLevel /= "") =>
       tiers.riskLevel = tiers.statsRiskLevel
  /\ tiers.creditTier /= "" => tiers.creditTier = StatedCreditTier(tiers.value)
  /\ tiers.statsCreditTier /= "" =>
       tiers.statsCreditTier = StatedCreditTier(tiers.value)
  /\ tiers.creditStats /= <<>> =>
       /\ tiers.creditStats.finalDistribution[StatedCreditTier(tiers.value)]
            = Num(100 * Pow10(2))
       /\ \A tier \in Tiers \ {StatedCreditTier(tiers.value)} :
            tiers.creditStats.finalDistribution[tier] = Num(0)
  /\ (tiers.creditTier /= "" /\ tiers.statsCreditTier /= ""
        /\ tiers.creditStats /= <<>>) =>
       /\ tiers.creditTier = tiers.statsCreditTier
       /\ tiers.creditTier = CountedTier

\* C18 witness: the score 750, on a threshold, has been given its tier by
\* all three places.
C18_Witness ==
  /\ tiers.kind = "score"
  /\ tiers.value = 750
  /\ tiers.creditTier = "excellent"
  /\ tiers.statsCreditTier = "excellent"
  /\ tiers.creditStats /= <<>>
  /\ CountedTier = "excellent"

-----------------------------------------------------------------------------
(* Claims about an unmet deficit                                           *)

\* C20 as claimed: when liquidateForDeficit returns a remainingDeficit
\* above 0, every asset of the returned list that is not locked has
\* amount 0.
C20_UnmetOnlyWhenExhausted ==
  (liq.state = "returned" /\ liq.remainingDeficit > 0) =>
    \A i \in 1..Len(atCall) :
      ~isAssetLocked(atCall[i], today) => Liquidated[i].amount = 0

====
